---- MODULE Spec2Model ----
(***************************************************************************)
(* Turn scheduler (ConversationEngine), stream sessions                    *)
(* (streamModelResponse) and the glue between them (ChatContainer) of the  *)
(* llm-grpchat group chat.                                                 *)
(*                                                                         *)
(* The JavaScript event loop runs every callback to completion, so each    *)
(* action below is one task: a user handler, a timer callback or the       *)
(* continuation of a network promise.  Delays are not measured: an armed   *)
(* timer may fire at any later step (the delay of queueResponse is a       *)
(* caller input, and network events arrive at arbitrary times).            *)
(***************************************************************************)
EXTENDS Integers, Sequences, FiniteSets, TLC

Agents == {"A", "B", "C"}
NoAgent == "none"

\* priorities handed to queueResponse by the caller (inputs)
Priorities == {70, 90}

\* private maxConcurrent = 1
maxConcurrent == 1

\* forceQueueResponse(modelId, 0, 90) of the retry path
RetryPriority == 90

\* retryCount default of triggerModelResponse(modelId, retryCount = 0)
DefaultRetryCount == 0

\* "retryCount < 2"
RetryLimit == 2

\* number of stream sessions that may be unresolved at once
MaxSessions == 2

\* cap of the retry history counter
MaxChain == 3

\* inputs of one run: decisions with shouldRespond = true (the queueResponse
\* calls of processModelResponses) and user commands (stop, pause, resume,
\* new chat, toggle a model)
MaxInputs == 4

Slots == 1..MaxSessions
NoSession == [modelId |-> NoAgent, phase |-> "free", hasContent |-> FALSE,
              hasRealContent |-> FALSE, aborted |-> "no", retryCount |-> 0,
              msgAlive |-> FALSE]

VARIABLES
  cooldowns,            \* agents with a lastResponseAt record (Map keys)
  responseQueue,        \* Seq of [modelId, priority]
  pendingModels,        \* Set<string>
  streamingModels,      \* Set<string>
  currentlyResponding,  \* number
  isPaused,             \* store.isPaused, read through isPausedFn
  availableModels,      \* store.availableModels: the agents one can toggle
  activeModels,         \* store.activeModels (roster)
  timers,               \* armed setTimeout callbacks with their captured values
  sessions,             \* unresolved streamModelResponse calls, by slot
  activeControllers,    \* registry: agent -> slot of its controller, 0 if none
  retryChain,           \* history: retries scheduled in a row, for the agents
                        \* a specification watches
  owed,                 \* history: handler invocations of an agent not yet
                        \* answered by a completeResponse call
  inputs,               \* history: decisions and commands taken so far
  ev,                   \* history: the task that ran last and what it invoked
  forced,               \* history: the dispatches of an agent since the last
                        \* forceQueueResponse for it, for the agents a
                        \* specification traces
  cooldownTime,         \* cooldowns: Map agent -> time of its last response
  messageCountSinceResponse, \* Map agent -> decisions evaluated since then
  now,                  \* Date.now()
  completedAt,          \* history: time of each agent's last completeResponse
  decision,             \* history: the last call on the tracker and its result
  strm,                 \* one call of streamModelResponse, step by step
  typing                \* the typing queue of one call of triggerModelResponse

vars == <<cooldowns, responseQueue, pendingModels, streamingModels,
          currentlyResponding, isPaused, availableModels, activeModels, timers,
          sessions,
          activeControllers, retryChain, owed, inputs, ev, forced,
          cooldownTime, messageCountSinceResponse, now, completedAt, decision,
          strm, typing>>

\* The scheduler specifications (Spec, SpecQueue, SpecRetry) take the outcome
\* of analyzeForResponse as an input and keep of the cooldown map only its key
\* set (cooldowns); the times, the silence counters and the clock are the state
\* of SpecDecide, whose actions are the calls that read or write them.
trackerVars == <<cooldownTime, messageCountSinceResponse, now, completedAt,
                 decision>>

Min(a, b) == IF a < b THEN a ELSE b

\* an armed timer: the callback (kind) with the values it captured; age is
\* history: "fresh" when armed, "stale" once reset() ran, "old" once a later
\* queueResponse for the same agent took effect
Timer(k, m, p) == [kind |-> k, modelId |-> m, priority |-> p, age |-> "fresh"]

Superseded(T, m) ==
  {IF t.modelId = m THEN [t EXCEPT !.age = "old"] ELSE t : t \in T}

\* setTimeout(cb, d): the callback with its captured values becomes armed
setTimeout(s, t) == [s EXCEPT !.timers = @ \cup {t}]

\* a look into the queue that finds the first entry only (a variant the
\* properties must reject)
QueueIdsFirstOnly(q) == IF q = <<>> THEN {} ELSE {q[1].modelId}

\* the agents with an entry: responseQueue.some(item => item.modelId === m)
QueueIds(q) == {q[i].modelId : i \in 1..Len(q)}

\* responseQueue.filter(item => item.modelId !== modelId)
FilterOut(q, m) == SelectSeq(q, LAMBDA e : e.modelId # m)

\* responseQueue.findIndex(item => item.priority < priority); 0 for -1
FindIndexLower(q, p) ==
  LET I == {i \in 1..Len(q) : q[i].priority < p}
  IN IF I = {} THEN 0 ELSE CHOOSE i \in I : \A j \in I : i <= j

\* splice(insertIndex, 0, e) / push(e)
InsertByPriority(q, e) ==
  LET i == FindIndexLower(q, e.priority)
  IN IF i = 0 THEN Append(q, e)
     ELSE SubSeq(q, 1, i - 1) \o <<e>> \o SubSeq(q, i, Len(q))

\* the mutable state one task works on
St == [cooldowns |-> cooldowns, responseQueue |-> responseQueue,
       pendingModels |-> pendingModels, streamingModels |-> streamingModels,
       currentlyResponding |-> currentlyResponding, timers |-> timers,
       sessions |-> sessions, activeControllers |-> activeControllers,
       retryChain |-> retryChain, owed |-> owed, invoked |-> {},
       accepted |-> {}]


(***************************************************************************)
(* ConversationEngine                                                      *)
(***************************************************************************)

\* isPaused(): this.isPausedFn?.() ?? false
isPausedFn == isPaused

\* completeResponse(modelId)
completeResponse(s, modelId) ==
  LET s1 == [s EXCEPT !.cooldowns = @ \cup {modelId},
                      !.pendingModels = @ \ {modelId},
                      !.streamingModels = @ \ {modelId},
                      !.owed[modelId] = @ - 1]
  IN IF Len(s1.responseQueue) > 0 /\ ~isPausedFn
     THEN LET next == Head(s1.responseQueue)
              s2 == [s1 EXCEPT !.responseQueue = Tail(@),
                               !.pendingModels = @ \cup {next.modelId}]
          IN setTimeout(s2, Timer("interturn", next.modelId, next.priority))
     ELSE [s1 EXCEPT !.currentlyResponding = @ - 1]

\* lowest free slot for a new stream session
FreeSlot(s) == CHOOSE k \in Slots :
                 /\ s.sessions[k].phase = "free"
                 /\ \A j \in Slots : s.sessions[j].phase = "free" => k <= j

\* streamModelResponse up to its first await: controller registered (timeout
\* armed with it), fetch sent
streamModelResponse(s, modelId) ==
  LET k == FreeSlot(s)
  IN [s EXCEPT !.sessions[k] = [modelId |-> modelId, phase |-> "fetch",
                                hasContent |-> FALSE, hasRealContent |-> FALSE,
                                aborted |-> "no",
                                retryCount |-> DefaultRetryCount,
                                msgAlive |-> TRUE],
               !.activeControllers[modelId] = k]

\* the response handler: triggerModelResponse(modelId), called by the engine
\* with one argument
triggerModelResponse(s, modelId) ==
  LET s1 == [s EXCEPT !.invoked = @ \cup {modelId}, !.owed[modelId] = @ + 1]
  IN IF modelId \notin activeModels
     THEN completeResponse(s1, modelId)
     ELSE streamModelResponse(s1, modelId)

\* triggerResponse(modelId)
triggerResponse(s, modelId) ==
  triggerModelResponse(
    [s EXCEPT !.currentlyResponding = @ + 1,
              !.streamingModels = @ \cup {modelId}], modelId)

\* tryTrigger with the cap compared by <= (a variant the properties must
\* reject)
tryTriggerOffByOne(s, modelId, priority) ==
  IF modelId \in s.streamingModels
  THEN [s EXCEPT !.pendingModels = @ \ {modelId}]
  ELSE LET s1 == [s EXCEPT !.pendingModels = @ \ {modelId}]
           e == [modelId |-> modelId, priority |-> priority]
       IN IF s1.streamingModels # {}
          THEN IF modelId \notin QueueIds(s1.responseQueue)
               THEN [s1 EXCEPT !.responseQueue = Append(@, e)]
               ELSE s1
          ELSE IF s1.currentlyResponding <= maxConcurrent
               THEN triggerResponse(s1, modelId)
               ELSE IF modelId \in QueueIds(s1.responseQueue)
                    THEN s1
                    ELSE [s1 EXCEPT !.responseQueue = InsertByPriority(@, e)]

\* tryTrigger(modelId, priority)
tryTrigger(s, modelId, priority) ==
  IF modelId \in s.streamingModels
  THEN [s EXCEPT !.pendingModels = @ \ {modelId}]
  ELSE LET s1 == [s EXCEPT !.pendingModels = @ \ {modelId}]
           e == [modelId |-> modelId, priority |-> priority]
       IN IF s1.streamingModels # {}
          THEN IF modelId \notin QueueIds(s1.responseQueue)
               THEN [s1 EXCEPT !.responseQueue = Append(@, e)]
               ELSE s1
          ELSE IF s1.currentlyResponding < maxConcurrent
               THEN triggerResponse(s1, modelId)
               ELSE IF modelId \in QueueIds(s1.responseQueue)
                    THEN s1
                    ELSE [s1 EXCEPT !.responseQueue = InsertByPriority(@, e)]

\* the guard of queueResponse: already pending, streaming or in the queue
AlreadyQueued(s, modelId) ==
  \/ modelId \in s.pendingModels
  \/ modelId \in s.streamingModels
  \/ modelId \in QueueIds(s.responseQueue)

\* queueResponse without its guard (a variant the properties must reject)
queueResponseUnguarded(s, modelId, priority) ==
  setTimeout([s EXCEPT !.pendingModels = @ \cup {modelId},
                       !.timers = Superseded(@, modelId),
                       !.accepted = @ \cup {modelId}],
             Timer("pending", modelId, priority))

\* queueResponse(modelId, delay, priority): marks pending and arms the timer
queueResponse(s, modelId, priority) ==
  IF AlreadyQueued(s, modelId)
  THEN s
  ELSE setTimeout([s EXCEPT !.pendingModels = @ \cup {modelId},
                            !.timers = Superseded(@, modelId),
                            !.accepted = @ \cup {modelId}],
                  Timer("pending", modelId, priority))

\* forceQueueResponse(modelId, delay, priority)
forceQueueResponse(s, modelId, priority) ==
  queueResponse([s EXCEPT !.cooldowns = @ \ {modelId},
                          !.pendingModels = @ \ {modelId},
                          !.responseQueue = FilterOut(@, modelId)],
                modelId, priority)

\* the timer callback without its pause check (a variant the properties must
\* reject)
pendingTimerFiredNoPauseCheck(s, modelId, priority) ==
  IF modelId \notin s.pendingModels
  THEN s
  ELSE tryTrigger(s, modelId, priority)

\* the callback of queueResponse's setTimeout
pendingTimerFired(s, modelId, priority) ==
  IF modelId \notin s.pendingModels
  THEN s
  ELSE IF isPausedFn
       THEN [setTimeout(s, Timer("recheck", modelId, priority))
               EXCEPT !.pendingModels = @ \ {modelId}]
       ELSE tryTrigger(s, modelId, priority)

\* the callback of the 500 ms pause recheck
recheckTimerFired(s, modelId, priority) ==
  IF modelId \in s.pendingModels /\ ~isPausedFn
  THEN tryTrigger(s, modelId, priority)
  ELSE IF modelId \in s.pendingModels
       THEN queueResponse(s, modelId, priority)
       ELSE s

\* the callback of completeResponse's 8000 ms setTimeout
interTurnTimerFired(s, modelId) ==
  LET s1 == [s EXCEPT !.pendingModels = @ \ {modelId}]
  IN IF ~isPausedFn /\ modelId \notin s1.streamingModels
     THEN triggerModelResponse(
            [s1 EXCEPT !.streamingModels = @ \cup {modelId}], modelId)
     ELSE LET s2 == [s1 EXCEPT !.currentlyResponding = @ - 1]
          IN IF ~isPausedFn /\ Len(s2.responseQueue) > 0
             THEN triggerResponse([s2 EXCEPT !.responseQueue = Tail(@)],
                                  Head(s2.responseQueue).modelId)
             ELSE s2

\* reset(); the timers stay armed (no clearTimeout)
reset(s) ==
  [s EXCEPT !.cooldowns = {}, !.responseQueue = <<>>, !.pendingModels = {},
            !.streamingModels = {}, !.currentlyResponding = 0,
            !.timers = {[t EXCEPT !.age = "stale"] : t \in @}]

(***************************************************************************)
(* streamHandler: the registry and the ways a session resolves             *)
(***************************************************************************)

Live(s) == {k \in Slots : s.sessions[k].phase # "free"}
Unresolved(s) == {k \in Slots : s.sessions[k].phase \in {"fetch", "read"}}

abortEveryController(s, k, reason) ==
  [s EXCEPT !.sessions =
     [j \in Slots |->
        IF s.sessions[j].aborted = "no"
             /\ s.sessions[j].phase \in {"fetch", "read"}
        THEN [s.sessions[j] EXCEPT !.aborted = reason]
        ELSE s.sessions[j]]]

\* controller.abort(reason): the first abort of a controller sets its reason
abort(s, k, reason) ==
  IF s.sessions[k].aborted = "no" /\ s.sessions[k].phase \in {"fetch", "read"}
  THEN [s EXCEPT !.sessions[k].aborted = reason]
  ELSE s

RECURSIVE abortEach(_, _)
abortEach(s, K) ==
  IF K = {} THEN s
  ELSE LET k == CHOOSE x \in K : TRUE
       IN abortEach(abort(s, k, "user"), K \ {k})

\* stopAllStreams(): aborts the registered controllers, clears the registry
stopAllStreams(s) ==
  [abortEach(s, {s.activeControllers[m] : m \in Agents} \ {0})
     EXCEPT !.activeControllers = [m \in Agents |-> 0]]

\* clearTimeout(timeout); activeControllers.delete(modelId)
sessionCleanup(s, k) ==
  [s EXCEPT !.activeControllers[s.sessions[k].modelId] = 0]

\* the retry history of the watched agents
ChainOf(c, m) == IF m \in DOMAIN c THEN c[m] ELSE 0

Chain(c, m, n) == IF m \in DOMAIN c THEN [c EXCEPT ![m] = n] ELSE c

NoChain(c) == [m \in DOMAIN c |-> 0]

\* the retry of onComplete / onError: setTimeout(forceQueueResponse, 2000)
scheduleRetry(s, modelId) ==
  [setTimeout(s, Timer("retry", modelId, RetryPriority))
     EXCEPT !.retryChain = Chain(@, modelId, Min(ChainOf(@, modelId) + 1, MaxChain))]

\* callbacks.onError of triggerModelResponse
onError(s, k) ==
  LET m == s.sessions[k].modelId
      s1 == completeResponse([s EXCEPT !.sessions[k] = NoSession], m)
  IN IF s.sessions[k].retryCount < RetryLimit
     THEN scheduleRetry(s1, m)
     ELSE s1

\* callbacks.onComplete: waitForQueue polls until the typing queue is drained
onComplete(s, k) == [s EXCEPT !.sessions[k].phase = "drain"]

\* processModelResponses(latestMessage) for a message of agent `author`:
\* queueResponse for the agents whose decision is shouldRespond; the
\* decisions (cooldown elapsed, mention, priority) are the input `d`,
\* a function from the agents asked to the priority decided
RECURSIVE processModelResponses(_, _, _)
processModelResponses(s, d, M) ==
  IF M = {} THEN s
  ELSE LET m == CHOOSE x \in M : TRUE
       IN processModelResponses(
            IF d[m] = 0 THEN s ELSE queueResponse(s, m, d[m]), d, M \ {m})

\* waitForQueue once the typing queue is empty: the end of the turn
waitForQueue(s, k, d) ==
  LET m == s.sessions[k].modelId
      real == s.sessions[k].hasRealContent
      s1 == completeResponse([s EXCEPT !.sessions[k] = NoSession], m)
      s2 == IF ~real /\ s.sessions[k].retryCount < RetryLimit
            THEN scheduleRetry(s1, m)
            ELSE [s1 EXCEPT !.retryChain = Chain(@, m, 0)]
  IN IF s.sessions[k].msgAlive
     THEN processModelResponses(s2, d, activeModels \ {m})
     ELSE s2

\* newConversation() / loadConversation(): the streaming messages are gone
clearMessages(s) ==
  [s EXCEPT !.sessions = [k \in Slots |->
      IF s.sessions[k].phase = "free" THEN s.sessions[k]
      ELSE [s.sessions[k] EXCEPT !.msgAlive = FALSE]]]

(***************************************************************************)
(* Actions: one task of the event loop each                                *)
(***************************************************************************)

\* the tasks the properties below tell apart; the others are recorded as "task"
Watched == {"queueResponse", "pendingTimer", "recheckTimer", "interTurnTimer",
            "retryTimer",
            "waitForQueue"}

Event(op, m, info, r) ==
  IF op \in Watched
  THEN [op |-> op, modelId |-> m, info |-> info, invoked |-> r.invoked]
  ELSE [op |-> "task", modelId |-> NoAgent, info |-> "", invoked |-> r.invoked]

\* forced after the task: "forced" once forceQueueResponse ran for an agent
\* that was not Streaming, then "dispatched" and "twice" as the handler is
\* invoked for the agent, "none" again once a later queueResponse for it
\* passes the guard. (No specification that traces an agent calls reset().)
Traced(r, e) ==
  [m \in DOMAIN forced |->
     IF e.op = "retryTimer" /\ e.modelId = m
     THEN IF m \in streamingModels THEN forced[m] ELSE "forced"
     ELSE IF m \in r.accepted THEN "none"
     ELSE IF m \notin r.invoked THEN forced[m]
     ELSE CASE forced[m] = "forced" -> "dispatched"
            [] forced[m] = "dispatched" -> "twice"
            [] OTHER -> forced[m]]

Apply(r, e) ==
  /\ cooldowns' = r.cooldowns
  /\ responseQueue' = r.responseQueue
  /\ pendingModels' = r.pendingModels
  /\ streamingModels' = r.streamingModels
  /\ currentlyResponding' = r.currentlyResponding
  /\ timers' = r.timers
  /\ sessions' = r.sessions
  /\ activeControllers' = r.activeControllers
  /\ retryChain' = r.retryChain
  /\ owed' = r.owed
  /\ ev' = e
  /\ forced' = Traced(r, e)
  /\ UNCHANGED trackerVars
  /\ UNCHANGED <<strm, typing>>

(***************************************************************************)
(* The decision function and the state it keeps                            *)
(***************************************************************************)

\* "Date.now() - lastResponse < 8000"
CooldownWindow == 8000

\* "2000 + (modelIndex * 500)"
BaseDelay == 2000
IndexDelay == 500

\* "Math.random() * 1000": the jitter lies in [0, RandomDelay)
RandomDelay == 1000

\* "isThinkingModel ? 2000 : 0"
ThinkingBonus == 2000

\* the clock starts at StartMs and advances TickMs at a time, MaxTicks times
StartMs == 20000
TickMs == 4000
MaxTicks == 2

\* cap of the silence counter
MaxSilence == 3

\* a Map is a function on its key set
EmptyMap == [k \in {} |-> 0]
\* map.get(k) || 0
Get(map, k) == IF k \in DOMAIN map THEN map[k] ELSE 0
Put(map, k, v) == [x \in DOMAIN map \cup {k} |-> IF x = k THEN v ELSE map[x]]
Delete(map, k) == [x \in DOMAIN map \ {k} |-> map[x]]

Max(a, b) == IF a >= b THEN a ELSE b

\* model.shortName, as characters
ShortName == [m \in Agents |->
                CASE m = "A" -> <<"A", "l">>
                  [] m = "B" -> <<"B", "o">>
                  [] OTHER   -> <<"C", "y">>]

\* the agents whose id includes "opus", "gpt-5" or "kimi"
ThinkingModels == {"A"}

\* position of the agents in the model list
Ordinal == [m \in Agents |-> CASE m = "A" -> 0 [] m = "B" -> 1 [] OTHER -> 2]

findIndexFromOne(roster, m) ==
  IF m \in roster THEN Cardinality({x \in roster : Ordinal[x] <= Ordinal[m]})
  ELSE -1

\* activeModels.findIndex(m => m.id === model.id)
findIndex(roster, m) ==
  IF m \in roster THEN Cardinality({x \in roster : Ordinal[x] < Ordinal[m]})
  ELSE -1

toLowerCase(c) ==
  CASE c = "A" -> "a" [] c = "B" -> "b" [] c = "L" -> "l" [] c = "O" -> "o"
    [] OTHER -> c

\* \w of the regular expression
WordChars == {"a", "b", "l", "o", "k", "x", "A", "B", "L", "O"}

\* the pattern matches at position i: its characters, compared without case,
\* then \b, a change between word and non-word character (the end of the text
\* counts as non-word)
MatchAt(content, i, pattern) ==
  LET end == i + Len(pattern)
  IN /\ end - 1 <= Len(content)
     /\ \A j \in 1..Len(pattern) :
          toLowerCase(content[i + j - 1]) = toLowerCase(pattern[j])
     /\ (content[end - 1] \in WordChars)
          # (end <= Len(content) /\ content[end] \in WordChars)

\* new RegExp(`@${model.shortName.toLowerCase()}\\b`, "i").test(content)
Mentions(content, m) ==
  LET name == ShortName[m]
      pattern == <<"@">> \o [j \in 1..Len(name) |-> toLowerCase(name[j])]
  IN \E i \in 1..Len(content) : MatchAt(content, i, pattern)

\* latestMessage.content.includes("?")
IsQuestion(content) == \E i \in 1..Len(content) : content[i] = "?"

\* the texts of the messages
Texts == { <<"o", "k">>,
           <<"o", "k", "?">>,
           <<"@", "a", "l">>,
           <<"@", "A", "L", "?">>,
           <<"@", "a", "l", "x">>,
           <<"x", "@", "B", "o", " ", "k">> }

\* a user message has no modelId; an assistant message carries its author's
\* id, "system" for the notices of the application
Authors == {"A", "B", "system"}
Messages ==
  [role : {"user"}, modelId : {NoAgent}, content : Texts]
    \cup [role : {"assistant"}, modelId : Authors, content : Texts]

NoMessage == [role |-> "", modelId |-> NoAgent, content |-> <<>>]

\* { shouldRespond: false, delay: 0, priority: 0 }
NoResponse == [shouldRespond |-> FALSE, delay |-> [lo |-> 0, hi |-> 0],
               priority |-> 0]

\* the two maps analyzeForResponse reads and writes
Tr == [cooldownTime |-> cooldownTime,
       messageCountSinceResponse |-> messageCountSinceResponse]

\* the maps of a new ConversationEngine
FreshTracker == [cooldownTime |-> EmptyMap,
                 messageCountSinceResponse |-> EmptyMap]

gatedIgnoringMention(isOnCooldown, isMentioned) == isOnCooldown

\* "if (isOnCooldown && !isMentioned)": the decision not to respond
gated(isOnCooldown, isMentioned) == isOnCooldown /\ ~isMentioned

layerPriorityLateSilence(isMentioned, latestMessage, silenceCount) ==
  LET p0 == IF isMentioned THEN 100 ELSE 50
      p1 == IF latestMessage.role = "user" THEN Max(p0, 80) ELSE p0
      p2 == IF IsQuestion(latestMessage.content) THEN Max(p1, 70) ELSE p1
  IN IF silenceCount > 2 THEN Max(p2, 60) ELSE p2

layerPriorityLastWins(isMentioned, latestMessage, silenceCount) ==
  LET p0 == IF isMentioned THEN 100 ELSE 50
      p1 == IF latestMessage.role = "user" THEN 80 ELSE p0
      p2 == IF IsQuestion(latestMessage.content) THEN 70 ELSE p1
  IN IF silenceCount >= 2 THEN 60 ELSE p2

\* the priority: 50, 100 for a mention, at least 80 for a message of the
\* human, at least 70 for a question, at least 60 after two silent rounds
layerPriority(isMentioned, latestMessage, silenceCount) ==
  LET p0 == IF isMentioned THEN 100 ELSE 50
      p1 == IF latestMessage.role = "user" THEN Max(p0, 80) ELSE p0
      p2 == IF IsQuestion(latestMessage.content) THEN Max(p1, 70) ELSE p1
  IN IF silenceCount >= 2 THEN Max(p2, 60) ELSE p2

exemptOwnOnly(model, latestMessage) == latestMessage.modelId = model

\* "latestMessage.modelId === model.id || latestMessage.modelId === 'system'"
exempt(model, latestMessage) ==
  latestMessage.modelId = model \/ latestMessage.modelId = "system"

\* analyzeForResponse(model, messages, latestMessage, activeModels) at time t:
\* the decision and the maps after the call
analyzeForResponse(tr, model, latestMessage, roster, t) ==
  IF exempt(model, latestMessage)
  THEN [tr |-> tr, decision |-> NoResponse]
  ELSE
    LET silenceCount == Get(tr.messageCountSinceResponse, model)
        tr1 == [tr EXCEPT !.messageCountSinceResponse =
                             Put(@, model, silenceCount + 1)]
        isMentioned == Mentions(latestMessage.content, model)
        lastResponse == Get(tr.cooldownTime, model)
        isOnCooldown == t - lastResponse < CooldownWindow
        modelIndex == findIndex(roster, model)
        baseDelay == BaseDelay + modelIndex * IndexDelay
        thinkingBonus == IF model \in ThinkingModels THEN ThinkingBonus ELSE 0
    IN IF gated(isOnCooldown, isMentioned)
       THEN [tr |-> tr1, decision |-> NoResponse]
       ELSE [tr |-> tr1,
             decision |-> [shouldRespond |-> TRUE,
                           delay |-> [lo |-> baseDelay + thinkingBonus,
                                      hi |-> baseDelay + thinkingBonus
                                               + RandomDelay],
                           priority |-> layerPriority(isMentioned,
                                                      latestMessage,
                                                      silenceCount)]]

completeTrackerStampsZero(tr, modelId, t) ==
  [cooldownTime |-> Put(tr.cooldownTime, modelId, 0),
   messageCountSinceResponse |-> Put(tr.messageCountSinceResponse, modelId, 0)]

\* completeResponse, its writes to the two maps
completeTracker(tr, modelId, t) ==
  [cooldownTime |-> Put(tr.cooldownTime, modelId, t),
   messageCountSinceResponse |-> Put(tr.messageCountSinceResponse, modelId, 0)]

\* forceQueueResponse: this.cooldowns.delete(modelId)
forceTracker(tr, modelId) ==
  [tr EXCEPT !.cooldownTime = Delete(@, modelId)]

resetTrackerKeepsSilence(tr) ==
  [tr EXCEPT !.cooldownTime = EmptyMap]

\* reset: this.cooldowns.clear(); this.messageCountSinceResponse.clear()
resetTracker(tr) ==
  [cooldownTime |-> EmptyMap, messageCountSinceResponse |-> EmptyMap]

\* the last call on the maps: the agent and the message it was made for, its
\* result, and what the maps held for the agent before it
Call(op, m, msg, result) ==
  [op |-> op, model |-> m, msg |-> msg, result |-> result,
   silenceBefore |-> IF m \in Agents THEN Get(messageCountSinceResponse, m)
                     ELSE 0,
   dirty |-> Tr # FreshTracker]

(***************************************************************************)
(* streamModelResponse, one call                                           *)
(***************************************************************************)

\* content fragments of one response
MaxFragments == 4

\* data lines of one chunk
MaxLines == 2

\* the call before it is made. pc is the await the call is suspended at;
\* signal is controller.signal (the reason it was aborted with); registered:
\* activeControllers has the entry of the call; timeout: the 10000 ms timer is
\* armed; out: the callbacks called so far. History: sawError, a data line
\* with an error field was read; cause, what ended the exchange with the
\* server; how, the way the call returned; abortAt, where the call was when
\* the signal was aborted; failure, the message of the failure that ended
\* the exchange; reported, the message of the error given to onError.
NoStream == [pc |-> "idle", hasContent |-> FALSE, signal |-> "no",
             registered |-> FALSE, timeout |-> FALSE, out |-> <<>>,
             sawError |-> FALSE, cause |-> "none", how |-> "none",
             abortAt |-> "none", failure |-> <<>>, reported |-> <<>>]

\* lines 42-63: controller registered, timer armed, fetch sent
startStream ==
  [NoStream EXCEPT !.pc = "fetch", !.registered = TRUE, !.timeout = TRUE]

\* messages are tuples of words. "API error: ${response.status}"
StatusText == <<"API", "error:", "500">>
\* "No response body"
NoBodyText == <<"No", "response", "body">>
\* the message of a fetch or a read that the network failed
NetworkText == <<"Failed", "to", "fetch">>
\* the texts the server sends in the error field of a body that is not 2xx
ServerTexts == { <<"rate", "limit">>,
                 <<"upstream", "timeout">>,
                 <<"Gateway", "Timeout">>,
                 <<"Connection", "Aborted">>,
                 <<"generation", "stopped">> }

\* toLowerCase() of a word
lowerWord(w) ==
  CASE w = "Aborted" -> "aborted" [] w = "Timeout" -> "timeout"
    [] w = "Gateway" -> "gateway" [] w = "Connection" -> "connection"
    [] OTHER -> w

\* word.includes(part), for the three parts the catch block looks for
wordIncludes(w, part) ==
  <<w, part>> \in { <<"abort", "abort">>, <<"aborted", "abort">>,
                    <<"stopped", "stopped">>, <<"timeout", "timeout">> }

\* String(err).includes(part)
includes(text, part) == \E i \in 1..Len(text) : wordIncludes(text[i], part)

toLowerText(text) == [i \in 1..Len(text) |-> lowerWord(text[i])]

\* what the catch block reads of the value it caught: err.name ===
\* "AbortError", and whether String(err) holds "abort" (whatever the case),
\* "stopped", "timeout" (in that case); text is the message
thrown(name, text) ==
  [name |-> name,
   abort |-> includes(toLowerText(text), "abort"),
   stopped |-> includes(text, "stopped"),
   timeout |-> includes(text, "timeout"),
   text |-> text]

\* new Error(text)
PlainError(text) == thrown("Error", text)

\* controller.abort(): a DOMException named AbortError;
\* controller.abort("Request timeout"): the string itself
AbortReason(signal) ==
  IF signal = "timeout"
  THEN [name |-> "", abort |-> FALSE, stopped |-> FALSE, timeout |-> TRUE,
        text |-> <<"Request", "timeout">>]
  ELSE [name |-> "AbortError", abort |-> TRUE, stopped |-> FALSE,
        timeout |-> FALSE, text |-> <<"signal", "is", "aborted">>]

emit(s, call) == [s EXCEPT !.out = Append(@, call)]

\* clearTimeout(timeout); activeControllers.delete(modelId)
cleanup(s) == [s EXCEPT !.timeout = FALSE, !.registered = FALSE]

\* the test of the catch block for "an abort"
isAbort(err) ==
  err.name = "AbortError" \/ err.abort \/ err.stopped \/ err.timeout

\* catch (error) { ... }
catchBlock(s, err) ==
  LET s1 == [cleanup(s) EXCEPT !.pc = "closed"]
  IN IF isAbort(err)
     THEN LET s2 == IF ~s1.hasContent /\ err.timeout
                    THEN emit(s1, "onToken(timedOut)")
                    ELSE s1
          IN [emit(s2, "onComplete") EXCEPT !.how = "abort"]
     ELSE [emit(s1, "onError") EXCEPT !.how = "error", !.reported = err.text]

\* the end of the stream, at "[DONE]" and after the loop: the placeholder
\* when nothing came, then onComplete
endOfStream(s, how) ==
  LET s1 == [cleanup(s) EXCEPT !.pc = "closed", !.how = how]
      s2 == IF ~s1.hasContent THEN emit(s1, "onToken(noResponse)") ELSE s1
  IN emit(s2, "onComplete")

processLineForgetsContent(s, line) ==
  CASE line = "done"    -> endOfStream(s, "done")
    [] line = "content" -> emit(s, "onToken(content)")
    [] line = "error"   -> [s EXCEPT !.sawError = TRUE]
    [] OTHER            -> s

\* one "data: " line: "[DONE]", {content}, {error} (thrown inside the try
\* whose catch ignores what it catches), or anything else
processLine(s, line) ==
  CASE line = "done"    -> endOfStream(s, "done")
    [] line = "content" -> emit([s EXCEPT !.hasContent = TRUE],
                                "onToken(content)")
    [] line = "error"   -> [s EXCEPT !.sawError = TRUE]
    [] OTHER            -> s

\* for (const line of lines), left by the return at "[DONE]"
RECURSIVE processLines(_, _)
processLines(s, lines) ==
  IF lines = <<>> \/ s.pc = "closed" THEN s
  ELSE processLines(processLine(s, Head(lines)), Tail(lines))

\* reader.read() resolved with a chunk
readResolved(s, lines) ==
  IF s.signal # "no"
  THEN endOfStream(s, "abort")
  ELSE processLines(s, lines)

Lines == {"content", "error", "done", "other"}

Chunks == UNION {[1..n -> Lines] : n \in 1..MaxLines}

Fragments(out) ==
  Cardinality({i \in 1..Len(out) : out[i] = "onToken(content)"})

(***************************************************************************)
(* The typing queue of one call of triggerModelResponse                    *)
(***************************************************************************)

\* characters of one response
MaxContent == 3

\* tokens: strings as tuples of characters
Tokens == {<<"a">>, <<"a", "b">>}

\* "[Ошибка: не удалось получить ответ]"
ErrorText == <<"[", "E", "]">>

\* the closure after addMessage: content, displayedContent, tokenQueue,
\* isProcessingQueue; drain and wait: the timers of processQueue (30 ms) and
\* waitForQueue (100 ms) are armed; resolved: the callback the stream handler
\* ended with; aborted: stopAllStreams() aborted the stream and the handler
\* has not resumed yet; message: the streaming message in the store; saved:
\* its copy in the saved conversation; done: completeResponse was called;
\* interrupt: the user paused or pressed Stop
NewTyping ==
  [content |-> <<>>, displayedContent |-> <<>>, tokenQueue |-> <<>>,
   isProcessingQueue |-> FALSE, drain |-> FALSE, wait |-> FALSE,
   resolved |-> "no", aborted |-> FALSE,
   message |-> [exists |-> TRUE, content |-> <<>>, isStreaming |-> TRUE],
   saved |-> [exists |-> FALSE, content |-> <<>>],
   done |-> FALSE, interrupt |-> "no"]

\* store.updateMessage(messageId, content)
updateMessage(t, text) ==
  IF t.message.exists THEN [t EXCEPT !.message.content = text] ELSE t

\* store.completeMessage(messageId)
completeMessage(t) ==
  IF t.message.exists THEN [t EXCEPT !.message.isStreaming = FALSE] ELSE t

\* processQueue()
processQueue(t) ==
  IF t.tokenQueue = <<>>
  THEN [t EXCEPT !.isProcessingQueue = FALSE, !.drain = FALSE]
  ELSE LET char == Head(t.tokenQueue)
           t1 == [t EXCEPT !.isProcessingQueue = TRUE,
                           !.tokenQueue = Tail(@),
                           !.displayedContent = Append(@, char)]
       IN [updateMessage(t1, t1.displayedContent) EXCEPT !.drain = TRUE]

\* callbacks.onToken(token)
onToken(t, token) ==
  LET t1 == [t EXCEPT !.content = @ \o token, !.tokenQueue = @ \o token]
  IN IF ~t1.isProcessingQueue THEN processQueue(t1) ELSE t1

\* waitForQueue() of callbacks.onComplete, as far as the message goes: it
\* polls while the queue is not drained, then writes the full content, marks
\* the message complete and calls completeResponse
typingWait(t) ==
  IF t.tokenQueue # <<>> \/ t.isProcessingQueue
  THEN [t EXCEPT !.wait = TRUE]
  ELSE [completeMessage(updateMessage(t, t.content))
          EXCEPT !.wait = FALSE, !.done = TRUE]

\* callbacks.onError, as far as the message goes
typingError(t) ==
  [completeMessage(updateMessage(t, IF t.content # <<>> THEN t.content
                                    ELSE ErrorText))
     EXCEPT !.resolved = "error", !.aborted = FALSE, !.done = TRUE]

\* the effect of isPaused: stopAllStreams(), completeMessage for the
\* streaming messages
pauseEffect(t) ==
  [completeMessage(t) EXCEPT !.aborted = (t.resolved = "no"),
                             !.interrupt = "pause"]

\* handleStop: the same, then saveConversation() and newConversation()
handleStop(t) ==
  LET t1 == completeMessage(t)
  IN [t1 EXCEPT !.aborted = (t.resolved = "no"), !.interrupt = "stop",
                !.saved = IF t1.message.exists
                          THEN [exists |-> TRUE, content |-> t1.message.content]
                          ELSE @,
                !.message.exists = FALSE]

IsPrefix(a, b) == Len(a) <= Len(b) /\ a = SubSeq(b, 1, Len(a))

InitTracing(roster, watched, traced) ==
  /\ availableModels = roster
  /\ activeModels = roster
  /\ cooldowns = {}
  /\ responseQueue = <<>>
  /\ pendingModels = {}
  /\ streamingModels = {}
  /\ currentlyResponding = 0
  /\ isPaused = FALSE
  /\ timers = {}
  /\ sessions = [k \in Slots |-> NoSession]
  /\ activeControllers = [m \in Agents |-> 0]
  /\ retryChain = [m \in watched |-> 0]
  /\ owed = [m \in Agents |-> 0]
  /\ inputs = 0
  /\ ev = [op |-> "init", modelId |-> NoAgent, info |-> "", invoked |-> {}]
  /\ forced = [m \in traced |-> "none"]
  /\ cooldownTime = EmptyMap
  /\ messageCountSinceResponse = EmptyMap
  /\ now = StartMs
  /\ completedAt = EmptyMap
  /\ decision = [op |-> "init", model |-> NoAgent, msg |-> NoMessage,
                 result |-> NoResponse, silenceBefore |-> 0, dirty |-> FALSE]
  /\ strm = NoStream
  /\ typing = NewTyping

InitWith(roster, watched) == InitTracing(roster, watched, {})


Command == inputs < MaxInputs /\ inputs' = inputs + 1

Decide(n) == inputs + n <= MaxInputs /\ inputs' = inputs + n

Task == UNCHANGED inputs

\* a dispatch needs a slot for its session
SlotFree == \E k \in Slots : sessions[k].phase = "free"

Disarm(s, t) == [s EXCEPT !.timers = @ \ {t}]

\* handleSendMessage / handleResume -> processModelResponses: one agent's
\* decision is shouldRespond with priority p
QueueResponse(m, p) ==
  /\ ~isPaused
  /\ m \in activeModels
  /\ LET r == queueResponse(St, m, p)
     IN Apply([r EXCEPT !.retryChain =
                 IF AlreadyQueued(St, m) THEN @ ELSE Chain(@, m, 0)],
              Event("queueResponse", m, "", r))
  /\ UNCHANGED <<isPaused, availableModels, activeModels>>
  /\ Decide(1)

PendingTimer(t) ==
  /\ t \in timers /\ t.kind = "pending" /\ SlotFree
  /\ LET r == pendingTimerFired(Disarm(St, t), t.modelId, t.priority)
     IN Apply(r, Event("pendingTimer", t.modelId, t.age, r))
  /\ UNCHANGED <<isPaused, availableModels, activeModels>>
  /\ Task

RecheckTimer(t) ==
  /\ t \in timers /\ t.kind = "recheck" /\ SlotFree
  /\ LET r == recheckTimerFired(Disarm(St, t), t.modelId, t.priority)
     IN Apply(r, Event("recheckTimer", t.modelId, t.age, r))
  /\ UNCHANGED <<isPaused, availableModels, activeModels>>
  /\ Task

InterTurnTimer(t) ==
  /\ t \in timers /\ t.kind = "interturn" /\ SlotFree
  /\ LET r == interTurnTimerFired(Disarm(St, t), t.modelId)
     IN Apply(r, Event("interTurnTimer", t.modelId, t.age, r))
  /\ UNCHANGED <<isPaused, availableModels, activeModels>>
  /\ Task

RetryTimer(t) ==
  /\ t \in timers /\ t.kind = "retry"
  /\ LET r == forceQueueResponse(Disarm(St, t), t.modelId, t.priority)
     IN Apply(r, Event("retryTimer", t.modelId, t.age, r))
  /\ UNCHANGED <<isPaused, availableModels, activeModels>>
  /\ Task

\* the 10000 ms request timeout of session k
RequestTimeout(k) ==
  /\ k \in Unresolved(St)
  /\ sessions[k].aborted = "no"
  /\ activeControllers[sessions[k].modelId] # 0
  /\ LET r == abort(St, k, "timeout")
     IN Apply(r, Event("requestTimeout", sessions[k].modelId, "", r))
  /\ UNCHANGED <<isPaused, availableModels, activeModels>>
  /\ Task

\* fetch resolves with a 2xx response
FetchOk(k) ==
  /\ sessions[k].phase = "fetch" /\ sessions[k].aborted = "no"
  /\ LET r == [St EXCEPT !.sessions[k].phase = "read"]
     IN Apply(r, Event("fetchOk", sessions[k].modelId, "", r))
  /\ UNCHANGED <<isPaused, availableModels, activeModels>>
  /\ Task

\* fetch rejects (network error), the status is not 2xx, or a read rejects
\* (connection drop): the catch block with an error that is no abort
TransportError(k) ==
  /\ k \in Unresolved(St) /\ sessions[k].aborted = "no"
  /\ LET r == onError(sessionCleanup(St, k), k)
     IN Apply(r, Event("onError", sessions[k].modelId, "no", r))
  /\ UNCHANGED <<isPaused, availableModels, activeModels>>
  /\ Task

\* a read delivers a content fragment; real = the glue takes it for real
\* content (it does not look like a placeholder)
ReadContent(k, real) ==
  /\ sessions[k].phase = "read" /\ sessions[k].aborted = "no"
  /\ LET r == [St EXCEPT !.sessions[k].hasContent = TRUE,
                         !.sessions[k].hasRealContent = @ \/ real]
     IN Apply(r, Event("onToken", sessions[k].modelId, "", r))
  /\ UNCHANGED <<isPaused, availableModels, activeModels>>
  /\ Task

\* [DONE] or the end of the body: the placeholder token when nothing came
\* (it is no real content), then onComplete
ReadDone(k) ==
  /\ sessions[k].phase = "read" /\ sessions[k].aborted = "no"
  /\ LET r == onComplete(sessionCleanup(St, k), k)
     IN Apply(r, Event("onComplete", sessions[k].modelId, "no", r))
  /\ UNCHANGED <<isPaused, availableModels, activeModels>>
  /\ Task

\* the aborted fetch or read rejects (or the read loop sees signal.aborted):
\* a placeholder token at most, then onComplete
AbortResolved(k) ==
  /\ k \in Unresolved(St) /\ sessions[k].aborted # "no"
  /\ LET r == onComplete(sessionCleanup(St, k), k)
     IN Apply(r, Event("onComplete", sessions[k].modelId,
                       sessions[k].aborted, r))
  /\ UNCHANGED <<isPaused, availableModels, activeModels>>
  /\ Task

\* waitForQueue finds the typing queue drained
WaitForQueue(k, d) ==
  /\ sessions[k].phase = "drain"
  /\ LET r == waitForQueue(St, k, d)
     IN Apply(r, Event("waitForQueue", sessions[k].modelId,
                       sessions[k].aborted, r))
  /\ UNCHANGED <<isPaused, availableModels, activeModels>>
  /\ Decide(Cardinality({m \in DOMAIN d : d[m] # 0}))

\* handleStop
Stop ==
  /\ LET r == clearMessages(reset(stopAllStreams(St)))
     IN Apply([r EXCEPT !.retryChain = NoChain(@)],
              Event("stop", NoAgent, "", r))
  /\ UNCHANGED <<isPaused, availableModels, activeModels>>
  /\ Command

\* togglePause from running, with the effect on isPaused
Pause ==
  /\ ~isPaused
  /\ isPaused' = TRUE
  /\ LET r == reset(stopAllStreams(St))
     IN Apply([r EXCEPT !.retryChain = NoChain(@)],
              Event("pause", NoAgent, "", r))
  /\ UNCHANGED <<availableModels, activeModels>>
  /\ Command

\* togglePause from paused (handleSubmit)
Resume ==
  /\ isPaused
  /\ isPaused' = FALSE
  /\ Apply(St, Event("resume", NoAgent, "", St))
  /\ UNCHANGED <<availableModels, activeModels>>
  /\ Command

\* New Chat: newConversation(); conversationEngine.reset()
NewChat ==
  /\ LET r == clearMessages(reset(St))
     IN Apply([r EXCEPT !.retryChain = NoChain(@)],
              Event("newChat", NoAgent, "", r))
  /\ UNCHANGED <<isPaused, availableModels, activeModels>>
  /\ Command

\* toggleModel(modelId)
ToggleModel(m) ==
  /\ m \in availableModels
  /\ activeModels' = IF m \in activeModels THEN activeModels \ {m}
                     ELSE activeModels \cup {m}
  /\ Apply(St, Event("toggleModel", m, "", St))
  /\ UNCHANGED <<isPaused, availableModels>>
  /\ Command

Decisions(k) == [activeModels \ {sessions[k].modelId} -> {0} \cup Priorities]

Next ==
  \/ \E m \in Agents, p \in Priorities : QueueResponse(m, p)
  \/ \E t \in timers : PendingTimer(t)
  \/ \E t \in timers : RecheckTimer(t)
  \/ \E t \in timers : InterTurnTimer(t)
  \/ \E t \in timers : RetryTimer(t)
  \/ \E k \in Slots : RequestTimeout(k)
  \/ \E k \in Slots : FetchOk(k)
  \/ \E k \in Slots : TransportError(k)
  \/ \E k \in Slots, real \in BOOLEAN : ReadContent(k, real)
  \/ \E k \in Slots : ReadDone(k)
  \/ \E k \in Slots : AbortResolved(k)
  \/ \E k \in Slots : \E d \in Decisions(k) : WaitForQueue(k, d)
  \/ Stop
  \/ Pause
  \/ Resume
  \/ NewChat
  \/ \E m \in Agents : ToggleModel(m)

\* two agents in the roster
Init == InitWith({"A", "B"}, {})

Spec == Init /\ [][Next]_vars

\* The event loop runs every armed timer callback, and the promise of an
\* aborted request always rejects.  The network owes nothing: a request may
\* stay unanswered forever, which is what the request timeout is there for.
Fairness ==
  \A k \in Slots :
    /\ WF_vars(RequestTimeout(k))
    /\ WF_vars(AbortResolved(k))
    /\ WF_vars(\E d \in Decisions(k) : WaitForQueue(k, d))

FairSpec == Spec /\ Fairness

\* Three agents, no user command after the messages that make them answer,
\* and every stream delivers real content: the wait queue at work.
InitQueue == InitWith(Agents, {})

NextQueue ==
  \/ \E m \in Agents, p \in Priorities : QueueResponse(m, p)
  \/ \E t \in timers : PendingTimer(t)
  \/ \E t \in timers : InterTurnTimer(t)
  \/ \E k \in Slots : FetchOk(k)
  \/ \E k \in Slots : ReadContent(k, TRUE)
  \/ \E k \in Slots : sessions[k].hasRealContent /\ ReadDone(k)
  \/ \E k \in Slots : \E d \in Decisions(k) : WaitForQueue(k, d)

SpecQueue == InitQueue /\ [][NextQueue]_vars

\* Two agents, the retries of agent "A" counted, no user command after the
\* messages: streams may fail, answer nothing, or time out.
InitRetry == InitWith({"A", "B"}, {"A"})

NextRetry ==
  \/ \E m \in Agents, p \in Priorities : QueueResponse(m, p)
  \/ \E t \in timers : PendingTimer(t)
  \/ \E t \in timers : InterTurnTimer(t)
  \/ \E t \in timers : RetryTimer(t)
  \/ \E k \in Slots : RequestTimeout(k)
  \/ \E k \in Slots : FetchOk(k)
  \/ \E k \in Slots : TransportError(k)
  \/ \E k \in Slots, real \in BOOLEAN : ReadContent(k, real)
  \/ \E k \in Slots : ReadDone(k)
  \/ \E k \in Slots : AbortResolved(k)
  \/ \E k \in Slots : \E d \in Decisions(k) : WaitForQueue(k, d)

SpecRetry == InitRetry /\ [][NextRetry]_vars

(***************************************************************************)
(* Properties                                                              *)
(***************************************************************************)

TimerOps == {"pendingTimer", "recheckTimer", "interTurnTimer"}

InCollections(m) ==
  (IF m \in pendingModels THEN 1 ELSE 0)
  + (IF m \in QueueIds(responseQueue) THEN 1 ELSE 0)
  + (IF m \in streamingModels THEN 1 ELSE 0)

\* C1: at most maxConcurrent agents are in the Streaming set, in every
\* reachable state.
C1_SingleSpeaker == Cardinality(streamingModels) <= maxConcurrent

\* C2: an agent leaves the wait queue (completeResponse takes it and arms its
\* inter-turn timer) only if no agent that stays in the queue has a higher
\* priority.
C2_PriorityDrain ==
  [][\A t \in timers' \ timers :
       t.kind = "interturn"
         => \A i \in 1..Len(responseQueue') :
              responseQueue'[i].priority <= t.priority]_vars

\* C3: no more than RetryLimit retries are scheduled in a row for one turn of
\* an agent whose streams keep failing.
C3_RetryBound == \A m \in DOMAIN retryChain : retryChain[m] <= RetryLimit

\* C4: every agent id is in at most one of the Pending set, the wait queue
\* and the Streaming set.
C4_OneCollection == \A m \in Agents : InCollections(m) <= 1

\* C5: every invocation of the response handler for an agent is eventually
\* answered by a completeResponse call for that agent.
C5_DispatchCompleted ==
  \A m \in Agents : (owed[m] > 0) ~> (owed[m] = 0)

C7_PauseBlocksDispatch ==
  [][/\ isPaused => ev'.invoked = {}
     /\ (isPaused /\ ev'.op = "pendingTimer")
          => currentlyResponding' = currentlyResponding]_vars

\* a Pending timer fired under pause for an agent that was Pending
C7_Witness ==
  /\ isPaused
  /\ ev.op = "pendingTimer"
  /\ \E t \in timers : t.kind = "recheck" /\ t.modelId = ev.modelId

\* C8: a timer that was armed before reset() invokes the handler for its
\* agent only if queueResponse took effect for the agent after the reset.
C8_ResetDisarmsTimers ==
  [][(ev'.op \in TimerOps /\ ev'.info = "stale")
       => ev'.modelId \notin ev'.invoked]_vars

\* C9: the recheck of an agent deferred by pause, firing after the pause ended
\* with no reset and no later queueResponse for the agent, hands the agent to
\* tryTrigger: it is dispatched or queued.
C9_PauseDefers ==
  [][(ev'.op = "recheckTimer" /\ ev'.info = "fresh" /\ ~isPaused)
       => \/ ev'.modelId \in ev'.invoked
          \/ ev'.modelId \in QueueIds(responseQueue')]_vars

\* C10: the end of a turn whose session was aborted by the caller arms no
\* retry for the agent.
C10_AbortNotRetried ==
  [][(ev'.op = "waitForQueue" /\ ev'.info = "user")
       => Timer("retry", ev'.modelId, RetryPriority) \notin timers' \ timers]_vars

\* the inter-turn timers whose delay is running: armed by completeResponse,
\* with no reset() and no forceQueueResponse for the agent since
InterTurnWaits == {t \in timers : t.kind = "interturn" /\ t.age = "fresh"}

\* C11: when completeResponse takes the head of the queue it marks that agent
\* Pending, not Streaming, and does not invoke its handler in that task; while the
\* inter-turn delay runs no handler is invoked by any other task than that
\* timer's callback, and a queueResponse call for the agent arms nothing.
C11_InterTurnDelay ==
  [][/\ \A t \in timers' \ timers :
          (t.kind = "interturn" /\ t.age = "fresh")
            => /\ t.modelId \in pendingModels'
               /\ t.modelId \notin streamingModels'
               /\ t.modelId \notin ev'.invoked
               /\ t.modelId \notin QueueIds(responseQueue')
     /\ \A t \in InterTurnWaits :
          /\ ev'.invoked # {} => (ev'.op = "interTurnTimer" /\ t \notin timers')
          /\ (ev'.op = "queueResponse" /\ ev'.modelId = t.modelId)
               => timers' = timers]_vars

\* C12: the response handler is never invoked for an agent that is in the
\* Streaming set when the task starts.
C12_NoDoubleDispatch ==
  [][\A m \in ev'.invoked : m \notin streamingModels]_vars

\* C13: no two stream sessions of one agent are unresolved and unaborted at
\* the same time.
C13_OneSessionPerAgent ==
  \A k, j \in Slots :
    (/\ k # j
     /\ k \in Unresolved(St) /\ j \in Unresolved(St)
     /\ sessions[k].aborted = "no" /\ sessions[j].aborted = "no")
      => sessions[k].modelId # sessions[j].modelId

\* C14: the concurrency counter never exceeds maxConcurrent.
C14_CounterBound == currentlyResponding <= maxConcurrent

\* the counter is at its cap while an inter-turn delay runs
C14_Witness ==
  /\ currentlyResponding = maxConcurrent
  /\ InterTurnWaits # {}
  /\ streamingModels = {}

(***************************************************************************)
(* The calls on the decision state: SpecDecide                             *)
(***************************************************************************)

schedulerVars == <<responseQueue, pendingModels, streamingModels,
                   currentlyResponding, isPaused, availableModels,
                   activeModels, timers, sessions, activeControllers,
                   retryChain, owed, inputs, ev, forced>>

SetTracker(tr) ==
  /\ cooldownTime' = tr.cooldownTime
  /\ messageCountSinceResponse' = tr.messageCountSinceResponse
  /\ cooldowns' = DOMAIN tr.cooldownTime
  /\ UNCHANGED schedulerVars
  /\ UNCHANGED <<strm, typing>>

\* the call of analyzeForResponse that processModelResponses makes for one
\* active agent on the latest message; what the caller does with the decision
\* (queueResponse) is an input of the scheduler specifications
AnalyzeForResponse(m, msg) ==
  /\ m \in activeModels
  /\ Get(messageCountSinceResponse, m) < MaxSilence
  /\ LET r == analyzeForResponse(Tr, m, msg, activeModels, now)
     IN /\ SetTracker(r.tr)
        /\ decision' = Call("decide", m, msg, r.decision)
  /\ UNCHANGED <<now, completedAt>>

CompleteResponse(m) ==
  /\ SetTracker(completeTracker(Tr, m, now))
  /\ completedAt' = Put(completedAt, m, now)
  /\ decision' = Call("complete", m, NoMessage, NoResponse)
  /\ UNCHANGED now

ForceQueueResponse(m) ==
  /\ SetTracker(forceTracker(Tr, m))
  /\ decision' = Call("force", m, NoMessage, NoResponse)
  /\ UNCHANGED <<now, completedAt>>

ResetTracker ==
  /\ SetTracker(resetTracker(Tr))
  /\ decision' = Call("reset", NoAgent, NoMessage, NoResponse)
  /\ UNCHANGED <<now, completedAt>>

Tick ==
  /\ now < StartMs + MaxTicks * TickMs
  /\ now' = now + TickMs
  /\ decision' = Call("tick", NoAgent, NoMessage, NoResponse)
  /\ UNCHANGED <<cooldowns, cooldownTime, messageCountSinceResponse,
                 completedAt>>
  /\ UNCHANGED schedulerVars
  /\ UNCHANGED <<strm, typing>>

NextDecide ==
  \/ \E m \in Agents, msg \in Messages : AnalyzeForResponse(m, msg)
  \/ \E m \in activeModels : CompleteResponse(m)
  \/ \E m \in activeModels : ForceQueueResponse(m)
  \/ ResetTracker
  \/ Tick

SpecDecide == InitWith({"A", "B"}, {}) /\ [][NextDecide]_vars


\* C15: after any sequence of calls, reset() leaves the two maps such that a
\* decision for any agent on any message returns the same result (whether to
\* respond, the priority, the range of the delay) and leaves the same maps as
\* the same call made at the same time on a new engine.
C15_ResetThenDecide ==
  [][decision'.op = "reset"
       => \A m \in activeModels', msg \in Messages :
            analyzeForResponse(Tr', m, msg, activeModels', now')
              = analyzeForResponse(FreshTracker, m, msg, activeModels', now')]_vars

\* reset() has run on maps that held a cooldown record or a silence counter
C15_Witness == decision.op = "reset" /\ decision.dirty

\* C16: the silence counter of an agent becomes 0 only by completeResponse for
\* that agent (or by reset(), which clears every counter), completeResponse
\* leaves it 0, and every decision evaluated for the agent on a message of
\* another author (the human, another agent or the system author) adds
\* exactly 1 to it, whether or not the decision is to respond.
C16_SilenceCounter ==
  [][/\ (decision'.op = "decide" /\ decision'.msg.modelId # decision'.model)
          => Get(messageCountSinceResponse', decision'.model)
               = Get(messageCountSinceResponse, decision'.model) + 1
     /\ decision'.op = "complete"
          => Get(messageCountSinceResponse', decision'.model) = 0
     /\ \A m \in Agents :
          (Get(messageCountSinceResponse, m) # 0
             /\ Get(messageCountSinceResponse', m) = 0)
            => \/ decision'.op = "complete" /\ decision'.model = m
               \/ decision'.op = "reset"]_vars

\* the agent the last decision was for is on cooldown
DecidedOnCooldown ==
  /\ decision.model \in DOMAIN cooldownTime
  /\ now - cooldownTime[decision.model] < CooldownWindow

\* the message of the last decision mentions the agent it was for
DecidedOnMention ==
  /\ decision.op = "decide"
  /\ Mentions(decision.msg.content, decision.model)

\* C18 as stated: for an agent on cooldown, the decision on a message whose
\* text holds the agent's @tag is to respond with priority 100, whoever wrote
\* the message.
C18_MentionBypassAnyAuthor ==
  (DecidedOnMention /\ DecidedOnCooldown)
    => (decision.result.shouldRespond /\ decision.result.priority = 100)

\* C18: for an agent on cooldown, the decision on a message of the human or
\* of another agent whose text holds the agent's @tag (compared without case,
\* ending at a word boundary) is to respond with priority 100.
C18_MentionBypass ==
  (/\ DecidedOnMention
   /\ DecidedOnCooldown
   /\ decision.msg.modelId \notin {decision.model, "system"})
    => (decision.result.shouldRespond /\ decision.result.priority = 100)

\* an agent on cooldown was mentioned in capitals by another agent
C18_Witness ==
  /\ DecidedOnMention
  /\ DecidedOnCooldown
  /\ decision.msg.role = "assistant"
  /\ decision.msg.modelId \notin {decision.model, "system"}
  /\ decision.msg.content = <<"@", "A", "L", "?">>
  /\ decision.result.priority = 100

\* C19 as stated: for an agent whose last completeResponse is less than the
\* cooldown window old, the decision on a message that does not mention it is
\* not to respond.
C19_CooldownAfterComplete ==
  (/\ decision.op = "decide"
   /\ ~Mentions(decision.msg.content, decision.model)
   /\ decision.model \in DOMAIN completedAt
   /\ now - completedAt[decision.model] < CooldownWindow)
    => ~decision.result.shouldRespond

\* C19: for an agent whose last completeResponse is less than the cooldown
\* window old and whose cooldown record has not been removed since (by reset()
\* or forceQueueResponse), the decision on a message that does not mention it
\* is not to respond, whoever wrote the message, with or without "?", whatever
\* the silence counter.
C19_CooldownGate ==
  (/\ decision.op = "decide"
   /\ ~Mentions(decision.msg.content, decision.model)
   /\ decision.model \in DOMAIN completedAt
   /\ now - completedAt[decision.model] < CooldownWindow
   /\ decision.model \in DOMAIN cooldownTime)
    => ~decision.result.shouldRespond

\* the human asked a question of an agent that completed a response less than
\* the window ago and had been silent for two rounds before
C19_Witness ==
  /\ decision.op = "decide"
  /\ decision.msg.role = "user"
  /\ decision.msg.content = <<"o", "k", "?">>
  /\ decision.silenceBefore >= 2
  /\ decision.model \in DOMAIN completedAt
  /\ now - completedAt[decision.model] = TickMs
  /\ decision.model \in DOMAIN cooldownTime
  /\ ~decision.result.shouldRespond

\* C20 as stated: when the silence counter of an agent has reached 2, the
\* next decision for it has priority 60 or more.
C20_AntiSilenceAlways ==
  (decision.op = "decide" /\ decision.silenceBefore >= 2)
    => decision.result.priority >= 60

\* C20: when the silence counter of an agent has reached 2, the next decision
\* for it that is to respond has priority 60 or more.
C20_AntiSilence ==
  (/\ decision.op = "decide"
   /\ decision.silenceBefore >= 2
   /\ decision.result.shouldRespond)
    => decision.result.priority >= 60

\* a plain message of another agent, which alone gives priority 50, got 60
\* after exactly two silent rounds
C20_Witness ==
  /\ decision.op = "decide"
  /\ decision.silenceBefore = 2
  /\ decision.msg.role = "assistant"
  /\ decision.msg.content = <<"o", "k">>
  /\ decision.result.shouldRespond
  /\ decision.result.priority = 60

(***************************************************************************)
(* A run that starts in the middle of a turn: SpecMidTurn                  *)
(***************************************************************************)

\* the state Spec reaches when queueResponse was called for A and for B and
\* both timers have fired: A was dispatched and its request is under way, B
\* waits in the queue
MidTurn ==
  /\ availableModels = {"A", "B"}
  /\ activeModels = {"A", "B"}
  /\ cooldowns = {}
  /\ responseQueue = <<[modelId |-> "B", priority |-> 70]>>
  /\ pendingModels = {}
  /\ streamingModels = {"A"}
  /\ currentlyResponding = 1
  /\ isPaused = FALSE
  /\ timers = {}
  /\ sessions = [k \in Slots |->
                   IF k = 1
                   THEN [NoSession EXCEPT !.modelId = "A", !.phase = "fetch",
                                          !.msgAlive = TRUE]
                   ELSE NoSession]
  /\ activeControllers = [m \in Agents |-> IF m = "A" THEN 1 ELSE 0]
  /\ retryChain = EmptyMap
  /\ owed = [m \in Agents |-> IF m = "A" THEN 1 ELSE 0]
  /\ ev = [op |-> "pendingTimer", modelId |-> "B", info |-> "fresh",
           invoked |-> {}]
  /\ forced = EmptyMap
  /\ cooldownTime = EmptyMap
  /\ messageCountSinceResponse = EmptyMap
  /\ now = StartMs
  /\ completedAt = EmptyMap
  /\ decision = [op |-> "init", model |-> NoAgent, msg |-> NoMessage,
                 result |-> NoResponse, silenceBefore |-> 0, dirty |-> FALSE]
  /\ strm = NoStream
  /\ typing = NewTyping

\* the inputs of the run are counted from that state on
InitMidTurn == MidTurn /\ inputs = 0

\* every request of the run fails in transport, and the human may press Stop
NextMidTurn ==
  \/ \E m \in Agents, p \in Priorities : QueueResponse(m, p)
  \/ \E t \in timers : PendingTimer(t)
  \/ \E t \in timers : InterTurnTimer(t)
  \/ \E t \in timers : RetryTimer(t)
  \/ \E k \in Slots : TransportError(k)
  \/ \E k \in Slots : AbortResolved(k)
  \/ Stop

SpecMidTurn == InitMidTurn /\ [][NextMidTurn]_vars

(***************************************************************************)
(* Retries with the dispatches of agent A traced: SpecForce                *)
(***************************************************************************)

InitForce == InitTracing({"A", "B"}, {}, {"A"})

SpecForce == InitForce /\ [][NextRetry]_vars

\* C17: forceQueueResponse(A, d, p) for an agent that is not Streaming leaves
\* A without cooldown record and without queue entry, Pending, with a new
\* timer armed; for an agent that is Streaming it leaves A neither Pending nor
\* queued, arms no timer and invokes no handler; and from a call for an agent
\* that is not Streaming until the next accepted request for A, the handler
\* is invoked for A at most once.
C17_ForceQueue ==
  [][/\ ev'.op = "retryTimer"
          => LET A == ev'.modelId
             IN IF A \notin streamingModels
                THEN /\ A \notin cooldowns'
                     /\ A \notin QueueIds(responseQueue')
                     /\ A \in pendingModels'
                     /\ Timer("pending", A, RetryPriority) \in timers'
                     /\ ev'.invoked = {}
                ELSE /\ A \notin pendingModels'
                     /\ A \notin QueueIds(responseQueue')
                     /\ timers' \subseteq timers
                     /\ ev'.invoked = {}
     /\ \A m \in DOMAIN forced' : forced'[m] # "twice"]_vars

\* C21: the decision for an agent on a message of the agent itself or of the
\* system author is not to respond, whatever the text of the message.
C21_OwnAndSystemExempt ==
  (/\ decision.op = "decide"
   /\ decision.msg.modelId \in {decision.model, "system"})
    => ~decision.result.shouldRespond

\* a system message that mentions the agent in a question was decided on
C21_Witness ==
  /\ decision.op = "decide"
  /\ decision.msg.modelId = "system"
  /\ Mentions(decision.msg.content, decision.model)
  /\ IsQuestion(decision.msg.content)
  /\ ~decision.result.shouldRespond

(***************************************************************************)
(* The steps of one call of streamModelResponse: SpecStream                *)
(***************************************************************************)

SetStream(s) ==
  /\ strm' = s
  /\ UNCHANGED <<cooldowns, schedulerVars, trackerVars, typing>>

\* streamModelResponse(modelId, messages, callbacks) is called
StreamStart ==
  /\ strm.pc \in {"idle", "closed"}
  /\ SetStream(startStream)

\* fetch resolves: a 2xx response with a body, a 2xx response without one
\* ("No response body"), or another status, whose body is read next
FetchResolves(ok, body) ==
  /\ strm.pc = "fetch" /\ strm.signal = "no"
  /\ SetStream(IF ~ok THEN [strm EXCEPT !.pc = "errorBody", !.cause = "status"]
               ELSE IF body THEN [strm EXCEPT !.pc = "read"]
               ELSE catchBlock([strm EXCEPT !.cause = "nobody",
                                             !.failure = NoBodyText],
                               PlainError(NoBodyText)))

\* fetch rejects: the request failed
FetchFails ==
  /\ strm.pc = "fetch" /\ strm.signal = "no"
  /\ SetStream(catchBlock([strm EXCEPT !.cause = "network",
                                       !.failure = NetworkText],
                          thrown("TypeError", NetworkText)))

\* response.json() of a response that is not 2xx resolves, with the error
\* field of the body (<<>>: the body has none), or rejects (also when the
\* signal was aborted meanwhile): new Error(errorMessage) is thrown, with the
\* text of the server or "API error: <status>"
ErrorBodyRead(error) ==
  /\ strm.pc = "errorBody"
  /\ LET errorMessage == IF error # <<>> THEN error ELSE StatusText
     IN SetStream(catchBlock([strm EXCEPT !.failure = errorMessage],
                             PlainError(errorMessage)))

\* reader.read() resolves with a chunk of data lines; an abort errors the
\* body, so a read that resolves was not aborted
ReadChunk(lines) ==
  /\ strm.pc = "read" /\ strm.signal = "no"
  /\ Fragments(strm.out) + Cardinality({i \in DOMAIN lines :
                                          lines[i] = "content"})
       <= MaxFragments
  /\ SetStream(readResolved(strm, lines))

\* reader.read() resolves with done: the end of the body
ReadEnds ==
  /\ strm.pc = "read" /\ strm.signal = "no"
  /\ SetStream(endOfStream(strm, "eof"))

\* reader.read() rejects: the connection dropped
ReadFails ==
  /\ strm.pc = "read" /\ strm.signal = "no"
  /\ SetStream(catchBlock([strm EXCEPT !.cause = "drop",
                                       !.failure = NetworkText],
                          thrown("TypeError", NetworkText)))

\* the pending fetch or read rejects with the reason of the abort
Rejected ==
  /\ strm.pc \in {"fetch", "read"} /\ strm.signal # "no"
  /\ SetStream(catchBlock(strm, AbortReason(strm.signal)))

\* stopStream(modelId) or stopAllStreams() while the call is registered
StopStream ==
  /\ strm.registered
  /\ SetStream(IF strm.signal = "no"
               THEN [strm EXCEPT !.signal = "user", !.registered = FALSE,
                                 !.abortAt = strm.pc]
               ELSE [strm EXCEPT !.registered = FALSE])

\* the callback of the 10000 ms timer
TimeoutFires ==
  /\ strm.timeout
  /\ SetStream(IF strm.registered /\ strm.signal = "no"
               THEN [strm EXCEPT !.timeout = FALSE, !.signal = "timeout",
                                 !.abortAt = strm.pc]
               ELSE [strm EXCEPT !.timeout = FALSE])

NextStream ==
  \/ StreamStart
  \/ \E ok, body \in BOOLEAN : FetchResolves(ok, body)
  \/ FetchFails
  \/ \E error \in ServerTexts \cup {<<>>} : ErrorBodyRead(error)
  \/ \E lines \in Chunks : ReadChunk(lines)
  \/ ReadEnds
  \/ ReadFails
  \/ Rejected
  \/ StopStream
  \/ TimeoutFires

SpecStream == Init /\ [][NextStream]_vars

\* C22: when the stream ends, at "[DONE]" or at the end of the body, after no
\* content fragment, onToken is called once, with the placeholder of the
\* empty response, and then onComplete; after one fragment or more the
\* fragments are followed by onComplete alone.
C22_EmptyResponsePlaceholder ==
  (strm.pc = "closed" /\ strm.how \in {"done", "eof"})
    => IF Fragments(strm.out) = 0
       THEN strm.out = <<"onToken(noResponse)", "onComplete">>
       ELSE /\ \A i \in 1..(Len(strm.out) - 1) :
                 strm.out[i] = "onToken(content)"
            /\ strm.out[Len(strm.out)] = "onComplete"

\* the body ended without "[DONE]" after nothing but an error event
C22_Witness ==
  /\ strm.pc = "closed"
  /\ strm.how = "eof"
  /\ strm.sawError
  /\ strm.out = <<"onToken(noResponse)", "onComplete">>

\* the callbacks of a session that resolved through onComplete alone
Completed(out) ==
  /\ out # <<>>
  /\ out[Len(out)] = "onComplete"
  /\ \A i \in 1..(Len(out) - 1) : out[i] \notin {"onComplete", "onError"}

\* the callbacks of a session that resolved through onError alone
Errored(out) ==
  /\ out # <<>>
  /\ out[Len(out)] = "onError"
  /\ \A i \in 1..(Len(out) - 1) : out[i] \notin {"onComplete", "onError"}

\* C23: a session that the caller aborted, at whatever point, resolves
\* through onComplete and never through onError.
C23_AbortCompletes ==
  (strm.pc = "closed" /\ strm.signal = "user") => Completed(strm.out)

\* C24: when the 10000 ms timer aborted the session before any content
\* fragment, the session delivers the placeholder of the timeout, once, and
\* then onComplete, and never onError.
C24_TimeoutPlaceholder ==
  (strm.pc = "closed" /\ strm.signal = "timeout" /\ Fragments(strm.out) = 0)
    => strm.out = <<"onToken(timedOut)", "onComplete">>

\* C25: a session that met a dropped connection, a status that is not 2xx or
\* an error event in the stream, and that the caller did not abort, resolves
\* through onError and never through onComplete.
C25_ErrorsAreErrored ==
  (/\ strm.pc = "closed"
   /\ strm.signal # "user"
   /\ (strm.cause \in {"drop", "status"} \/ strm.sawError))
    => Errored(strm.out)

\* C26: every live session that was not aborted is the one the registry holds
\* for its agent, so that stopAllStreams() reaches it.
C26_LiveSessionsRegistered ==
  \A k \in Unresolved(St) :
    sessions[k].aborted = "no" => activeControllers[sessions[k].modelId] = k

(***************************************************************************)
(* The typing queue of one response: SpecTyping                            *)
(***************************************************************************)

SetTyping(t) ==
  /\ typing' = t
  /\ UNCHANGED <<cooldowns, schedulerVars, trackerVars, strm>>

\* the stream handler calls onToken
OnToken(token) ==
  /\ typing.resolved = "no" /\ ~typing.aborted
  /\ Len(typing.content) + Len(token) <= MaxContent
  /\ SetTyping(onToken(typing, token))

\* the 30 ms timer of processQueue
ProcessQueueTimer ==
  /\ typing.drain
  /\ SetTyping(processQueue(typing))

\* the stream handler calls onComplete: the stream ended or was aborted
OnComplete ==
  /\ typing.resolved = "no"
  /\ SetTyping(typingWait([typing EXCEPT !.resolved = "complete",
                                         !.aborted = FALSE]))

\* the 100 ms timer of waitForQueue
WaitForQueueTimer ==
  /\ typing.wait
  /\ SetTyping(typingWait(typing))

\* the stream handler calls onError
OnError ==
  /\ typing.resolved = "no"
  /\ SetTyping(typingError(typing))

\* the user pauses while the message is in the feed
PauseEffect ==
  /\ typing.interrupt = "no"
  /\ SetTyping(pauseEffect(typing))

\* the user presses Stop
HandleStop ==
  /\ typing.interrupt = "no"
  /\ SetTyping(handleStop(typing))

NextTyping ==
  \/ \E token \in Tokens : OnToken(token)
  \/ ProcessQueueTimer
  \/ OnComplete
  \/ WaitForQueueTimer
  \/ OnError
  \/ PauseEffect
  \/ HandleStop

SpecTyping == Init /\ [][NextTyping]_vars

\* the text of the message of the response, in the feed or, after Stop, in
\* the saved conversation
FinalText ==
  IF typing.message.exists THEN typing.message.content
  ELSE typing.saved.content

\* C27: when a response ends as Completed, its message is marked complete
\* and completeResponse is called only once the typing queue is empty and
\* its drain loop idle; the text displayed is a prefix of the accumulated
\* text; and the final text of the message is the full accumulated text,
\* also when the user paused or stopped while the queue was draining.
C27_CompleteAfterDrain ==
  typing.resolved = "complete" =>
    /\ (typing.done \/ (typing.message.exists /\ ~typing.message.isStreaming))
         => (typing.tokenQueue = <<>> /\ ~typing.isProcessingQueue)
    /\ (typing.message.exists \/ typing.saved.exists)
         => /\ IsPrefix(FinalText, typing.content)
            /\ typing.done => FinalText = typing.content

(***************************************************************************)
(* The wait queue after Stop: FairDrainSpec                                *)
(***************************************************************************)

\* the state Spec reaches when A was dispatched, B was put in the queue, the
\* request of A failed (completeResponse took B from the queue and armed the
\* inter-turn timer, onError armed the retry of A) and the human pressed
\* Stop: reset() emptied the collections, the two timers stay armed
AfterStop ==
  /\ availableModels = {"A", "B"}
  /\ activeModels = {"A", "B"}
  /\ cooldowns = {}
  /\ responseQueue = <<>>
  /\ pendingModels = {}
  /\ streamingModels = {}
  /\ currentlyResponding = 0
  /\ isPaused = FALSE
  /\ timers = {[Timer("retry", "A", RetryPriority) EXCEPT !.age = "stale"],
               [Timer("interturn", "B", 70) EXCEPT !.age = "stale"]}
  /\ sessions = [k \in Slots |-> NoSession]
  /\ activeControllers = [m \in Agents |-> 0]
  /\ retryChain = EmptyMap
  /\ owed = [m \in Agents |-> 0]
  /\ ev = [op |-> "task", modelId |-> NoAgent, info |-> "", invoked |-> {}]
  /\ forced = EmptyMap
  /\ cooldownTime = EmptyMap
  /\ messageCountSinceResponse = EmptyMap
  /\ now = StartMs
  /\ completedAt = EmptyMap
  /\ decision = [op |-> "init", model |-> NoAgent, msg |-> NoMessage,
                 result |-> NoResponse, silenceBefore |-> 0, dirty |-> FALSE]
  /\ strm = NoStream
  /\ typing = NewTyping

\* the inputs of the run are counted from that state on
InitDrain == AfterStop /\ inputs = 0

\* the decisions on a response: no agent answers it
Silent(k) == [m \in activeModels \ {sessions[k].modelId} |-> 0]

\* no pause and no reset from that state on; every stream delivers real
\* content; the messages of the human make agents answer with priority 70
NextDrain ==
  \/ \E m \in Agents : QueueResponse(m, 70)
  \/ \E t \in timers : PendingTimer(t)
  \/ \E t \in timers : InterTurnTimer(t)
  \/ \E t \in timers : RetryTimer(t)
  \/ \E k \in Slots : FetchOk(k)
  \/ \E k \in Slots : ReadContent(k, TRUE)
  \/ \E k \in Slots : sessions[k].hasRealContent /\ ReadDone(k)
  \/ \E k \in Slots : WaitForQueue(k, Silent(k))

SpecDrain == InitDrain /\ [][NextDrain]_vars

\* every value a timer can have captured
TimerSpace ==
  [kind : {"pending", "interturn", "retry"}, modelId : Agents,
   priority : Priorities, age : {"fresh", "stale", "old"}]

\* The event loop runs the callback of every armed timer, and every
\* dispatched agent completes: the server answers, the stream ends, the
\* typing queue drains.
DrainFairness ==
  /\ \A t \in TimerSpace :
       /\ WF_vars(PendingTimer(t))
       /\ WF_vars(InterTurnTimer(t))
       /\ WF_vars(RetryTimer(t))
  /\ \A k \in Slots :
       /\ WF_vars(FetchOk(k))
       /\ WF_vars(ReadContent(k, TRUE))
       /\ WF_vars(sessions[k].hasRealContent /\ ReadDone(k))
       /\ WF_vars(WaitForQueue(k, Silent(k)))

FairDrainSpec == SpecDrain /\ DrainFairness

C29_CompleteClearsAgent ==
  [][ev'.op = "waitForQueue"
       => /\ ev'.modelId \notin pendingModels'
          /\ ev'.modelId \notin streamingModels'
          /\ ev'.modelId \notin QueueIds(responseQueue')]_vars

\* C30: the wait queue holds every agent id at most once.
C30_NoDuplicateInQueue ==
  \A i, j \in 1..Len(responseQueue) :
    responseQueue[i].modelId = responseQueue[j].modelId => i = j

\* two agents wait in the queue, one of them put there while it was streaming
C30_Witness ==
  /\ Len(responseQueue) = 2
  /\ \E m \in QueueIds(responseQueue) : m \in streamingModels

(***************************************************************************)
(* The priority and the delay of a decision                                *)
(***************************************************************************)

\* the levels that apply to the last decision: 50 always, 100 for a mention
\* of the agent, 80 for a message of the human, 70 for a text with "?", 60
\* when the silence counter before the call was 2 or more
Levels ==
  {50}
    \cup (IF Mentions(decision.msg.content, decision.model) THEN {100} ELSE {})
    \cup (IF decision.msg.role = "user" THEN {80} ELSE {})
    \cup (IF IsQuestion(decision.msg.content) THEN {70} ELSE {})
    \cup (IF decision.silenceBefore >= 2 THEN {60} ELSE {})

Greatest(S) == CHOOSE x \in S : \A y \in S : y <= x

\* C31: every decision to respond has as priority the greatest of the levels
\* that apply (50; 100 for a mention; 80 for a message of the human; 70 for a
\* "?"; 60 for a silence counter of 2 or more before the call), so that no
\* later rule lowers what an earlier one set; every decision not to respond
\* has priority 0 and delay 0.
C31_PriorityIsMax ==
  decision.op = "decide"
    => IF decision.result.shouldRespond
       THEN decision.result.priority = Greatest(Levels)
       ELSE /\ decision.result.priority = 0
            /\ decision.result.delay = [lo |-> 0, hi |-> 0]

\* an agent silent for two rounds was mentioned in a question: the rules for
\* "?" and for silence came after the mention and left the priority at 100
C31_Witness ==
  /\ decision.op = "decide"
  /\ decision.result.shouldRespond
  /\ Levels = {50, 60, 70, 100}
  /\ decision.result.priority = 100

(***************************************************************************)
(* Failures of the transport                                               *)
(***************************************************************************)

TimedOutNow == {k \in Slots : /\ sessions[k].aborted = "no"
                               /\ sessions'[k].aborted = "timeout"}

\* C33: the step in which the request timeout of a session expires aborts
\* that session and nothing else: the sessions and the registry entries of
\* the other agents, the Pending, Queued and Streaming collections, the
\* counter, the armed timers, the cooldown records and the silence counters
\* are as before.
C33_TimeoutIsLocal ==
  [][TimedOutNow # {}
       => /\ Cardinality(TimedOutNow) = 1
          /\ \A k \in TimedOutNow :
               /\ \A j \in Slots \ {k} : sessions'[j] = sessions[j]
               /\ sessions'[k] = [sessions[k] EXCEPT !.aborted = "timeout"]
          /\ UNCHANGED <<activeControllers, responseQueue, pendingModels,
                         streamingModels, currentlyResponding, timers,
                         cooldowns, cooldownTime,
                         messageCountSinceResponse>>]_vars

\* a session was aborted by its timer while the session of another agent,
\* not aborted, was waiting for the server
C33_Witness ==
  \E k, j \in Slots :
    /\ sessions[k].aborted = "timeout"
    /\ sessions[j].phase \in {"fetch", "read"}
    /\ sessions[j].aborted = "no"
    /\ sessions[j].modelId # sessions[k].modelId
    /\ activeControllers[sessions[j].modelId] = j

(***************************************************************************)
(* The concurrency counter                                                 *)
(***************************************************************************)

\* C34: the counter is never negative and equals the number of agents in the
\* Streaming set, plus one while an inter-turn delay runs, also after
\* reset() and the completeResponse calls of the sessions a stop aborted.
C34_CounterMatches ==
  /\ currentlyResponding >= 0
  /\ currentlyResponding
       = Cardinality(streamingModels)
           + (IF InterTurnWaits # {} THEN 1 ELSE 0)

(***************************************************************************)
(* Live sessions and the Streaming set                                     *)
(***************************************************************************)

\* the sessions waiting for the server whose controller was not aborted
LiveSessions == {k \in Unresolved(St) : sessions[k].aborted = "no"}

\* C35: at most one stream session is live at any time, and the agent of
\* every live session is in the Streaming set, also after the reset() of
\* New Chat and of a change of the conversation id, which abort no stream.
C35_OneLiveSession ==
  /\ Cardinality(LiveSessions) <= 1
  /\ \A k \in LiveSessions : sessions[k].modelId \in streamingModels

(***************************************************************************)
(* completeResponse for an agent that is not Streaming: SpecStray          *)
(***************************************************************************)

\* a state of the application some seconds after Stop: the stream of A was
\* aborted with content still in its typing queue, so its waitForQueue is
\* polling; the human has posted again, B was dispatched and waits for the
\* server, and A's timer fired next and put A in the queue
StrayDrain ==
  /\ availableModels = {"A", "B"}
  /\ activeModels = {"A", "B"}
  /\ cooldowns = {}
  /\ responseQueue = <<[modelId |-> "A", priority |-> 70]>>
  /\ pendingModels = {}
  /\ streamingModels = {"B"}
  /\ currentlyResponding = 1
  /\ isPaused = FALSE
  /\ timers = {}
  /\ sessions = [k \in Slots |->
                   CASE k = 1 -> [modelId |-> "A", phase |-> "drain",
                                  hasContent |-> TRUE, hasRealContent |-> TRUE,
                                  aborted |-> "user",
                                  retryCount |-> DefaultRetryCount,
                                  msgAlive |-> FALSE]
                     [] k = 2 -> [NoSession EXCEPT !.modelId = "B",
                                                   !.phase = "fetch",
                                                   !.msgAlive = TRUE]
                     [] OTHER -> NoSession]
  /\ activeControllers = [m \in Agents |-> IF m = "B" THEN 2 ELSE 0]
  /\ retryChain = EmptyMap
  /\ owed = [m \in Agents |-> IF m \in {"A", "B"} THEN 1 ELSE 0]
  /\ ev = [op |-> "pendingTimer", modelId |-> "A", info |-> "fresh",
           invoked |-> {}]
  /\ forced = EmptyMap
  /\ cooldownTime = EmptyMap
  /\ messageCountSinceResponse = EmptyMap
  /\ now = StartMs
  /\ completedAt = EmptyMap
  /\ decision = [op |-> "init", model |-> NoAgent, msg |-> NoMessage,
                 result |-> NoResponse, silenceBefore |-> 0, dirty |-> FALSE]
  /\ strm = NoStream
  /\ typing = NewTyping

\* the inputs of the run are counted from that state on
InitStray == StrayDrain /\ inputs = 0

\* no command of the human and no failure of the transport from that state
\* on; every stream delivers real content; the messages of the human make
\* agents answer with priority 70
NextStray ==
  \/ \E m \in Agents : QueueResponse(m, 70)
  \/ \E t \in timers : PendingTimer(t)
  \/ \E t \in timers : InterTurnTimer(t)
  \/ \E k \in Slots : FetchOk(k)
  \/ \E k \in Slots : ReadContent(k, TRUE)
  \/ \E k \in Slots : sessions[k].hasRealContent /\ ReadDone(k)
  \/ \E k \in Slots : WaitForQueue(k, Silent(k))

SpecStray == InitStray /\ [][NextStray]_vars

\* C36: the completeResponse call that waitForQueue makes for an agent that
\* is not in the Streaming set (the completion of a session that a stop
\* aborted, arriving after reset()) takes nothing from the wait queue and
\* invokes no handler, so that it dispatches nobody next to an agent that is
\* still Streaming.
C36_StrayCompletion ==
  [][(ev'.op = "waitForQueue" /\ ev'.modelId \notin streamingModels)
       => /\ responseQueue' = responseQueue
          /\ ev'.invoked = {}]_vars

(***************************************************************************)
(* The delay of a decision: SpecDelay                                      *)
(***************************************************************************)

\* the rosters: every set of agents that is not empty
InitDelay == \E roster \in SUBSET Agents \ {{}} : InitWith(roster, {})

\* decisions for the agents of the roster, at several times and after
\* several silent rounds; no response completes, so no agent is on cooldown
NextDelay ==
  \/ \E m \in Agents, msg \in Messages : AnalyzeForResponse(m, msg)
  \/ Tick

SpecDelay == InitDelay /\ [][NextDelay]_vars

\* the place of agent m in the roster, counted from 0
Place(m) == Cardinality({x \in activeModels : Ordinal[x] < Ordinal[m]})

\* the delay decided now for agent m on message msg, as the range of its
\* values: lo <= delay < hi
DelayFor(m, msg) ==
  analyzeForResponse(Tr, m, msg, activeModels, now).decision

\* C37: for an agent at place i of the roster every decision to respond has
\* a delay d with 2000 + 500 * i <= d < 3000 + 500 * i milliseconds, both
\* limits 2000 ms higher for a deliberate agent; so with the same jitter, of
\* two agents of the same kind the one further down the roster never gets
\* the smaller delay.
C37_DelayRange ==
  /\ (decision.op = "decide" /\ decision.result.shouldRespond)
       => LET i == Place(decision.model)
              shift == IF decision.model \in ThinkingModels THEN 2000 ELSE 0
          IN /\ decision.result.delay.lo = 2000 + 500 * i + shift
             /\ decision.result.delay.hi = 3000 + 500 * i + shift
  /\ decision.op = "decide"
       => \A m1, m2 \in activeModels :
            (/\ Place(m1) < Place(m2)
             /\ (m1 \in ThinkingModels) = (m2 \in ThinkingModels)
             /\ DelayFor(m1, decision.msg).shouldRespond
             /\ DelayFor(m2, decision.msg).shouldRespond)
              => /\ DelayFor(m1, decision.msg).delay.lo
                      <= DelayFor(m2, decision.msg).delay.lo
                 /\ DelayFor(m1, decision.msg).delay.hi
                      <= DelayFor(m2, decision.msg).delay.hi

\* in the roster {B, C} the agent C, second of two ordinary agents, was told
\* to respond after 2500 ms or more
C37_Witness ==
  /\ activeModels = {"B", "C"}
  /\ decision.op = "decide"
  /\ decision.model = "C"
  /\ decision.result.shouldRespond
  /\ decision.result.delay = [lo |-> 2500, hi |-> 3500]

(***************************************************************************)
(* The public query isOnCooldown                                           *)
(***************************************************************************)

\* "Date.now() - lastResponse < 10000"
QueryWindow == 10000

\* isOnCooldown(modelId) at time t
isOnCooldown(tr, modelId, t) ==
  LET lastResponse == Get(tr.cooldownTime, modelId)
  IN t - lastResponse < QueryWindow

\* C38: isOnCooldown(agent) is true exactly when a decision for the agent on
\* a message of another author that does not mention it would be not to
\* respond: the query and the decision use the same window, counted from the
\* same record.
C38_QueryAgreesWithDecide ==
  \A m \in activeModels, msg \in Messages :
    (~exempt(m, msg) /\ ~Mentions(msg.content, m))
      => (isOnCooldown(Tr, m, now)
            = ~analyzeForResponse(Tr, m, msg, activeModels, now)
                 .decision.shouldRespond)

====
